---- MODULE Spec2Model ----
(***************************************************************************)
(* gofile-webui, src/server.js: the GoFileDownloader class.                *)
(*                                                                         *)
(* server.js holds two revisions of the same program one after the other  *)
(* (lines 1-334 and 335-724).  downloadContent, parseLinksRecursively and  *)
(* threadedDownloads are the same text in both; where the revisions       *)
(* differ (constructor, init, createDir, download) the content resolver  *)
(* is modelled for both, the variable `revision` saying which one runs;   *)
(* the download engine is the later one, which is the one that has         *)
(* maxWorkers.                                                             *)
(*                                                                         *)
(* Download engine: a file on disk is the sequence of the byte positions  *)
(* (1..size) of the remote file its bytes were copied from, so a file is   *)
(* a correct copy of a remote file of size S exactly when it is            *)
(* <<1, ..., S>>.                                                          *)
(***************************************************************************)
EXTENDS Integers, Sequences, FiniteSets, TLC

VARIABLES
    fileInfos,   \* Object.values(this.filesInfo): entry -> [file, link]
    remoteSize,  \* link -> size of the remote file (the server's state)
    finalFile,   \* disk: path -> content of <path>, or NoFile
    partFile,    \* disk: path -> content of <path>.part, or NoFile
    disk0,       \* history: the disk when threadedDownloads was called
    pc,          \* entry -> state of its downloadContent promise
    partSize,    \* entry -> `partSize` of downloadContent
    range,       \* entry -> N of the header Range: bytes=N-, or NoRange
    gets,        \* entry -> number of GETs issued for it
    resp,        \* entry -> the response: [cl, from], or NoResp
    totalSize,   \* entry -> `totalSize` of downloadContent
    written,     \* entry -> writer.bytesWritten
    fd,          \* entry -> where the file its writer opened is now: "none",
                 \*          "part", "final" (renamed since), "unlinked"
    message,     \* entry -> the progress line its 'data' handler logged
                 \*          last: [sofar, total, pct], or NoMessage
    logged,      \* set of <<entry, kind>>: the lines passed to log()
    runPc,       \* threadedDownloads / download: ready, joining, done, aborted
    procUp,      \* the node process is running
    tree,        \* the remote content: [kind, parent, name] over the node ids
    cwd,         \* process.cwd(), a path (sequence of components)
    dirs,        \* disk: the directories that exist
    contentDir,  \* run -> this.contentDir, or Null
    recursiveFilesIndex,  \* run -> this.recursiveFilesIndex
    filesInfo,   \* run -> this.filesInfo: key -> [path, filename, link]
    stack,       \* run -> the parseLinksRecursively calls in progress
    rootDir,     \* run -> this.rootDir
    rootId,      \* run -> the content id in the url given to download()
    dlPc,        \* run -> where its download() call is
    fetches,     \* run -> history: the <<node, outcome>> of each metadata GET
    revision,    \* 1: server.js lines 1-334 are running, 2: lines 335-724
    token,       \* run -> this.token: "none", "preset" (GF_TOKEN), "created"
    accounts,    \* run -> history: number of POSTs to /accounts
    made,        \* run -> history: the directories its mkdir calls named
    resolved,    \* run -> history: filesInfo when parseLinksRecursively returned
    handed,      \* run -> Object.values(this.filesInfo) in threadedDownloads
    source,      \* run -> what parseUrlOrFile was given: [file, lines], a url
                 \*        (file FALSE) or a file whose other lines are `lines`
    res          \* run -> what the POST handler has answered after
                 \*        constructing the run: "none", "started", "failed"

engineVars == <<fileInfos, remoteSize, finalFile, partFile, disk0, pc, partSize,
                range, gets, resp, totalSize, written, fd, message, logged,
                  runPc, procUp>>

resolverVars == <<tree, cwd, dirs, contentDir, recursiveFilesIndex, filesInfo,
                  stack, rootDir, rootId, dlPc, fetches, revision, token,
                  accounts, made, resolved, handed, source, res>>

\* the engine's variables but procUp
engineNoProc == <<fileInfos, remoteSize, finalFile, partFile, disk0, pc, partSize,
                  range, gets, resp, totalSize, written, fd, message, logged,
                  runPc>>

vars == <<engineVars, resolverVars>>

----------------------------------------------------------------------------
(* Bounds *)

\* largest remote file, in bytes
MaxSize == 2

\* entries of a manifest in SpecRun
MaxEntries == 2

\* nodes of a remote tree
MaxNodes == 4

\* constructor(url, password = null, maxWorkers = 5)
maxWorkers == 5

\* a manifest one entry larger than the worker pool
PoolEntries == maxWorkers + 1

----------------------------------------------------------------------------
(* Values *)

NoFile == <<0>>
NoRange == -1
NoResp == [cl |-> -1, from |-> -1]
NoMessage == [sofar |-> -1, total |-> -1, pct |-> -1]

\* bytes a+1 .. a+k of a remote file
Bytes(a, k) == [i \in 1..k |-> a + i]

Entries == DOMAIN fileInfos

Exists(f) == f # NoFile

\* path.join(fileInfo.path, fileInfo.filename)
filepath(e) == fileInfos[e].file

Fulfilled == {"skipped", "nolength", "mismatch", "completed"}
Pending == {"requested", "streaming", "stalled"}

----------------------------------------------------------------------------
(* downloadContent: the pure parts *)

SkipCondition_NoCheck(fin) == FALSE

\* existsSync(filepath) && statSync(filepath).size > 0
SkipCondition(fin) == Exists(fin) /\ Len(fin) > 0

\* let partSize = 0; if (existsSync(tmpFile)) partSize = statSync(tmpFile).size
ResumeOffset(prt) == IF Exists(prt) THEN Len(prt) ELSE 0

\* if (existsSync(tmpFile)) headers['Range'] = `bytes=${partSize}-`
RangeHeader(prt) == IF Exists(prt) THEN Len(prt) ELSE NoRange

OpenWriter_Truncate(prt) == <<>>

\* createWriteStream(tmpFile, { flags: 'a' }): creates the file, keeps its bytes
OpenWriter(prt) == IF Exists(prt) THEN prt ELSE <<>>

\* (x * 100).toFixed(1) for x = num / den, in tenths of a percent: the
\* nearest tenth
toFixed1(num, den) == (2000 * num + den) \div (2 * den)

\* the 'data' handler: progress = ((partSize + writer.bytesWritten) /
\* totalSize) * 100, and the line `${partSize + writer.bytesWritten} of
\* ${totalSize} ${progress.toFixed(1)}%`
ProgressLine(part, bytesWritten, total) ==
    [sofar |-> part + bytesWritten,
     total |-> total,
     pct   |-> toFixed1(part + bytesWritten, total)]

SizeVerified_Always(prt, total) == TRUE

\* statSync(tmpFile).size === totalSize
SizeVerified(prt, total) == Len(prt) = total

----------------------------------------------------------------------------
(* The server.  A response to a GET without Range, or one that ignores the *)
(* Range header (200), carries the whole file; a response that honours     *)
(* Range: bytes=N- (206) carries bytes N+1..S, and its content-length is   *)
(* the length of that body.  A range starting at or past the end of the    *)
(* file is refused (416), which axios turns into a rejection.              *)

Response(e, honour) ==
    IF range[e] # NoRange /\ honour
    THEN [cl |-> remoteSize[fileInfos[e].link] - range[e], from |-> range[e]]
    ELSE [cl |-> remoteSize[fileInfos[e].link], from |-> 0]

Satisfiable(e, honour) ==
    (range[e] # NoRange /\ honour) => range[e] < remoteSize[fileInfos[e].link]

----------------------------------------------------------------------------
(* Promise.all(downloads) and what follows it in download() and init().    *)
(* The continuations run as microtasks of the tick in which an entry's    *)
(* promise settles, so they are part of the step that settles it.  A       *)
(* rejection leaves init()'s promise rejected with nobody awaiting it      *)
(* (the constructor drops it): node then either goes on or ends the        *)
(* process, depending on its unhandled-rejections mode.                    *)

\* await Promise.all(downloads): rejects with the first rejection, resolves
\* when every promise is fulfilled
Join(newpc) ==
    IF runPc # "joining" THEN runPc
    ELSE IF \E e \in Entries : newpc[e] = "failed" THEN "aborted"
    ELSE IF \A e \in Entries : newpc[e] \in Fulfilled THEN "done"
    ELSE "joining"

Settle(newpc, newlog) ==
    /\ pc' = newpc
    /\ runPc' = Join(newpc)
    /\ IF runPc = "joining" /\ runPc' = "aborted"
       THEN /\ procUp' \in BOOLEAN
            /\ logged' = newlog \cup {<<0, "download error">>}
       ELSE /\ procUp' = procUp
            /\ logged' = newlog

----------------------------------------------------------------------------
(* Actions of the download engine *)

Skips(e) == SkipCondition(finalFile[filepath(e)])

\* threadedDownloads, called with a contentDir:
\* Object.values(this.filesInfo).map(downloadContent) runs every
\* downloadContent up to its first await (the GET) in one tick.
threadedDownloads ==
    /\ procUp /\ runPc = "ready"
    /\ pc' = [e \in Entries |-> IF Skips(e) THEN "skipped" ELSE "requested"]
    /\ partSize' = [e \in Entries |->
                      IF Skips(e) THEN 0 ELSE ResumeOffset(partFile[filepath(e)])]
    /\ range' = [e \in Entries |->
                   IF Skips(e) THEN NoRange ELSE RangeHeader(partFile[filepath(e)])]
    /\ gets' = [e \in Entries |-> IF Skips(e) THEN 0 ELSE 1]
    /\ logged' = logged \cup {<<e, "skip">> : e \in {x \in Entries : Skips(x)}}
    /\ runPc' = IF \A e \in Entries : Skips(e) THEN "done" ELSE "joining"
    /\ UNCHANGED resolverVars
    /\ UNCHANGED <<fd, message, fileInfos, remoteSize, finalFile, partFile, disk0, resp,
                   totalSize, written, procUp>>

RequestFails_Retries(e) ==
    /\ procUp /\ pc[e] = "requested" /\ gets[e] < 2
    /\ gets' = [gets EXCEPT ![e] = @ + 1]
    /\ logged' = logged \cup {<<e, "error">>}
    /\ UNCHANGED resolverVars
    /\ UNCHANGED <<fd, message, fileInfos, remoteSize, finalFile, partFile, disk0, pc, partSize,
                   range, resp, totalSize, written, runPc, procUp>>

\* await axios(...) rejects: network error, timeout, status outside 2xx
RequestFails(e) ==
    /\ procUp /\ pc[e] = "requested"
    /\ Settle([pc EXCEPT ![e] = "failed"], logged \cup {<<e, "error">>})
    /\ UNCHANGED resolverVars
    /\ UNCHANGED <<fd, message, fileInfos, remoteSize, finalFile, partFile, disk0, partSize,
                   range, gets, resp, totalSize, written>>

NoContentLength_OpensWriter(e) ==
    /\ procUp /\ pc[e] = "requested"
    /\ partFile' = [partFile EXCEPT ![filepath(e)] = OpenWriter(@)]
    /\ Settle([pc EXCEPT ![e] = "nolength"], logged \cup {<<e, "nolength">>})
    /\ UNCHANGED resolverVars
    /\ UNCHANGED <<fd, message, fileInfos, remoteSize, finalFile, disk0, partSize,
                   range, gets, resp, totalSize, written>>

\* if (!totalSize) { log(`Couldn't find the file size`); return; }
NoContentLength(e) ==
    /\ procUp /\ pc[e] = "requested"
    /\ Settle([pc EXCEPT ![e] = "nolength"], logged \cup {<<e, "nolength">>})
    /\ UNCHANGED resolverVars
    /\ UNCHANGED <<fd, message, fileInfos, remoteSize, finalFile, partFile, disk0, partSize,
                   range, gets, resp, totalSize, written>>

\* the response arrives with a content-length: the writer is opened
ResponseOk(e) ==
    /\ procUp /\ pc[e] = "requested"
    /\ \E honour \in BOOLEAN :
         /\ range[e] = NoRange => honour
         /\ Satisfiable(e, honour)
         /\ resp' = [resp EXCEPT ![e] = Response(e, honour)]
         /\ totalSize' = [totalSize EXCEPT ![e] = Response(e, honour).cl]
    /\ partFile' = [partFile EXCEPT ![filepath(e)] = OpenWriter(@)]
    /\ written' = [written EXCEPT ![e] = 0]
    /\ fd' = [fd EXCEPT ![e] = "part"]
    /\ pc' = [pc EXCEPT ![e] = "streaming"]
    /\ UNCHANGED resolverVars
    /\ UNCHANGED <<message, fileInfos, remoteSize, finalFile, disk0, partSize, range,
                   gets, logged, runPc, procUp>>

\* fs.rename(tmpFile, filepath), seen from the writers that have the path's
\* files open: a writer of the partial file now writes to the final file, a
\* writer of the file that was replaced writes to a file without a name;
\* the writer of entry e itself has finished
Renamed(e) ==
    [o \in Entries |->
        IF o = e THEN "none"
        ELSE IF filepath(o) # filepath(e) THEN fd[o]
        ELSE IF fd[o] = "part" THEN "final"
        ELSE IF fd[o] = "final" THEN "unlinked"
        ELSE fd[o]]

\* response.data 'data': the progress handler, registered before pipe(),
\* runs first and reads writer.bytesWritten before this chunk is written
\* (the chunks before it have been); then pipe() writes the chunk to the
\* file the writer opened, wherever it is now
Chunk(e) ==
    /\ procUp /\ pc[e] = "streaming"
    /\ written[e] < resp[e].cl
    /\ LET b == resp[e].from + written[e] + 1
       IN  /\ partFile' = IF fd[e] = "part"
                           THEN [partFile EXCEPT ![filepath(e)] = Append(@, b)]
                           ELSE partFile
           /\ finalFile' = IF fd[e] = "final"
                            THEN [finalFile EXCEPT ![filepath(e)] = Append(@, b)]
                            ELSE finalFile
    /\ written' = [written EXCEPT ![e] = @ + 1]
    /\ message' = [message EXCEPT
                      ![e] = ProgressLine(partSize[e], written[e], totalSize[e])]
    /\ logged' = logged \cup {<<e, "progress">>}
    /\ UNCHANGED resolverVars
    /\ UNCHANGED <<fd, fileInfos, remoteSize, disk0, pc, partSize, range,
                   gets, resp, totalSize, runPc, procUp>>

\* response.data 'end' -> writer 'finish' -> the size check and the rename.
\* The body may end before content-length bytes were written.  statSync
\* throws when the partial file is not there any more (ENOENT): catch, log,
\* throw.
StreamEnd(e) ==
    /\ procUp /\ pc[e] = "streaming"
    /\ IF ~Exists(partFile[filepath(e)])
       THEN /\ UNCHANGED <<finalFile, partFile>>
            /\ fd' = [fd EXCEPT ![e] = "none"]
            /\ Settle([pc EXCEPT ![e] = "failed"], logged \cup {<<e, "error">>})
       ELSE IF SizeVerified(partFile[filepath(e)], totalSize[e])
       THEN /\ finalFile' = [finalFile EXCEPT ![filepath(e)] = partFile[filepath(e)]]
            /\ partFile' = [partFile EXCEPT ![filepath(e)] = NoFile]
            /\ fd' = Renamed(e)
            /\ Settle([pc EXCEPT ![e] = "completed"], logged \cup {<<e, "done">>})
       ELSE /\ UNCHANGED <<finalFile, partFile>>
            /\ fd' = [fd EXCEPT ![e] = "none"]
            /\ Settle([pc EXCEPT ![e] = "mismatch"], logged)
    /\ UNCHANGED resolverVars
    /\ UNCHANGED <<message, fileInfos, remoteSize, disk0, partSize, range, gets, resp,
                   totalSize, written>>

\* response.data 'error' (connection reset, timeout while streaming): pipe()
\* does not end the writer, which emits neither 'finish' nor 'error'
StreamError(e) ==
    /\ procUp /\ pc[e] = "streaming"
    /\ pc' = [pc EXCEPT ![e] = "stalled"]
    /\ UNCHANGED resolverVars
    /\ UNCHANGED <<fd, message, fileInfos, remoteSize, finalFile, partFile, disk0, partSize,
                   range, gets, resp, totalSize, written, logged, runPc, procUp>>

\* writer 'error' -> reject -> catch: log, throw
WriterError(e) ==
    /\ procUp /\ pc[e] = "streaming"
    /\ Settle([pc EXCEPT ![e] = "failed"], logged \cup {<<e, "error">>})
    /\ UNCHANGED resolverVars
    /\ UNCHANGED <<fd, message, fileInfos, remoteSize, finalFile, partFile, disk0, partSize,
                   range, gets, resp, totalSize, written>>

\* the steps of one entry's downloadContent
downloadContent(e) ==
    \/ RequestFails(e)
    \/ NoContentLength(e)
    \/ ResponseOk(e)
    \/ Chunk(e)
    \/ StreamEnd(e)
    \/ StreamError(e)
    \/ WriterError(e)

EngineNext ==
    \/ threadedDownloads
    \/ \E e \in Entries : RequestFails(e)
    \/ \E e \in Entries : NoContentLength(e)
    \/ \E e \in Entries : ResponseOk(e)
    \/ \E e \in Entries : Chunk(e)
    \/ \E e \in Entries : StreamEnd(e)
    \/ \E e \in Entries : StreamError(e)
    \/ \E e \in Entries : WriterError(e)

----------------------------------------------------------------------------
(* Initial states of the engine: a manifest of n entries with distinct     *)
(* destinations (or, with `collide`, all with the same destination), each  *)
(* remote file of some size, and on disk what earlier                      *)
(* runs may have left: a final file and a partial file, each absent or a   *)
(* prefix of the remote file.                                              *)

Prefixes(k) == {Bytes(0, j) : j \in 0..k}

EngineInit(ns, sizes, withFinal, withPart, collide) ==
    \E n \in ns :
      /\ fileInfos = [e \in 1..n |-> [file |-> IF collide THEN 1 ELSE e, link |-> e]]
      /\ remoteSize \in [1..n -> sizes]
      /\ finalFile \in [1..n -> IF withFinal THEN {NoFile} \cup Prefixes(MaxSize)
                                             ELSE {NoFile}]
      /\ partFile \in [1..n -> IF withPart THEN {NoFile} \cup Prefixes(MaxSize)
                                           ELSE {NoFile}]
      /\ \A f \in 1..n : /\ Exists(finalFile[f]) => Len(finalFile[f]) <= remoteSize[f]
                         /\ Exists(partFile[f]) => Len(partFile[f]) <= remoteSize[f]
      /\ disk0 = [final |-> finalFile, part |-> partFile]
      /\ pc = [e \in 1..n |-> "idle"]
      /\ partSize = [e \in 1..n |-> 0]
      /\ range = [e \in 1..n |-> NoRange]
      /\ gets = [e \in 1..n |-> 0]
      /\ resp = [e \in 1..n |-> NoResp]
      /\ totalSize = [e \in 1..n |-> 0]
      /\ written = [e \in 1..n |-> 0]
      /\ fd = [e \in 1..n |-> "none"]
      /\ message = [e \in 1..n |-> NoMessage]
      /\ logged = {}
      /\ runPc = "ready"
      /\ procUp = TRUE

----------------------------------------------------------------------------
(* Content resolver.  A path is a sequence of components from the file     *)
(* system's root; the component of a content id i is <<"id", i>>, a        *)
(* display name is <<"id", i>> (the node is named like its id), <<"n", i>> *)
(* (a name of its own) or <<"n", 0>> (a name several nodes share).  The    *)
(* model takes the configuration of the Dockerfile: WORKDIR /app, and      *)
(* GF_DOWNLOADDIR and GF_INTERACTIVE are not set.                          *)

Null == << <<"null", 0>> >>

\* WORKDIR /app
App == << <<"app", 0>> >>

\* '/downloads'
Downloads == << <<"downloads", 0>> >>

IdComp(i) == <<"id", i>>

Nodes == DOMAIN tree.kind

RECURSIVE Ascending(_)
Ascending(S) ==
    IF S = {} THEN <<>>
    ELSE LET m == CHOOSE x \in S : \A y \in S : x <= y
         IN  <<m>> \o Ascending(S \ {m})

\* data.children of a folder, in the order for (const childId in ...) visits it
Children(p) == Ascending({c \in Nodes : tree.parent[c] = p})

Runs == DOMAIN dlPc

\* path.join(cwd, name)
Join2(path, comp) == Append(path, comp)

\* process.chdir('..')
ParentDir(path) == IF path = <<>> THEN <<>> ELSE SubSeq(path, 1, Len(path) - 1)

\* a path and the directories above it
Ancestors(path) == {SubSeq(path, 1, k) : k \in 0..Len(path)}

\* this.rootDir = process.env.GF_DOWNLOADDIR || '/downloads' (revision 1),
\*                process.env.GF_DOWNLOADDIR || process.cwd() (revision 2)
RootDirOf(rev, wd) == IF rev = 1 THEN Downloads ELSE wd

\* createDir(dirname): const filepath = path.join(this.rootDir, dirname)
\* (revision 1), path.join(process.cwd(), dirname) (revision 2), with wd the
\* working directory at the call
createDir(r, wd, comp) == Join2(IF revision = 1 THEN rootDir[r] ELSE wd, comp)

\* mkdir(filepath, { recursive: true }) makes the missing parents too and
\* never fails; mkdir(filepath) fails without the parent (EEXIST is swallowed)
MkdirFails(path) == revision = 2 /\ ParentDir(path) \notin dirs

Mkdir(path) == IF revision = 1 THEN dirs \cup Ancestors(path) ELSE dirs \cup {path}

NeedsAccount_Always(tok) == TRUE

\* if (!this.token)
NeedsAccount(tok) == tok = "none"

NextIndex_Skip(idx) == idx + 2

\* this.recursiveFilesIndex++
NextIndex(idx) == idx + 1

\* this.filesInfo[this.recursiveFilesIndex.toString()] = {path, filename, link}
AddFile(s, node) ==
    LET k == NextIndex(s.idx)
    IN  [s EXCEPT !.idx = k,
                  !.info = (k :> [path |-> s.cwd, filename |-> tree.name[node],
                                  link |-> node]) @@ s.info]

Descend_Twice(s, c) ==
    [s EXCEPT !.stack = s.stack \o <<[node |-> c, at |-> "fetch", i |-> 1],
                                     [node |-> c, at |-> "fetch", i |-> 1]>>]

\* await this.parseLinksRecursively(child.id, password): runs up to its GET
Descend(s, c) ==
    [s EXCEPT !.stack = Append(s.stack, [node |-> c, at |-> "fetch", i |-> 1])]

\* The for loop over data.children from child number top.i on, and what follows
\* it, up to the next await: a file child is added to the manifest, a folder
\* child is descended into (the loop waits for it); after the last child the
\* call does process.chdir('..') and returns, and the caller's loop goes on.
RECURSIVE Loop(_)
Loop(s) ==
    IF s.stack = <<>> THEN s
    ELSE LET d == Len(s.stack)
             top == s.stack[d]
             kids == Children(top.node)
         IN  IF top.at = "fetch" THEN s
             ELSE IF top.i > Len(kids)
             THEN LET rest == SubSeq(s.stack, 1, d - 1)
                  IN  Loop([s EXCEPT !.cwd = ParentDir(s.cwd),
                                     !.stack = IF rest = <<>> THEN rest
                                               ELSE [rest EXCEPT ![d - 1].i = @ + 1]])
             ELSE IF tree.kind[kids[top.i]] = "folder"
             THEN Descend(s, kids[top.i])
             ELSE Loop(AddFile([s EXCEPT !.stack[d].i = @ + 1], kids[top.i]))

\* a parseLinksRecursively call returns before its loop (file, refused)
Return(s) ==
    LET d == Len(s.stack)
        rest == SubSeq(s.stack, 1, d - 1)
    IN  Loop([s EXCEPT !.stack = IF rest = <<>> THEN rest
                                 ELSE [rest EXCEPT ![d - 1].i = @ + 1]])

Local(r) == [stack |-> stack[r], idx |-> recursiveFilesIndex[r],
             info |-> filesInfo[r], cwd |-> cwd]

Top(r) == stack[r][Len(stack[r])]

\* The run goes on from local state s.  When the outermost
\* parseLinksRecursively has returned, download() goes on in the same tick:
\* without a contentDir it logs, resets and returns, otherwise it awaits
\* fs.readdir(this.contentDir).
Resume(r, s, cdir) ==
    /\ cwd' = s.cwd
    /\ stack' = [stack EXCEPT ![r] = s.stack]
    /\ contentDir' = [contentDir EXCEPT
                        ![r] = IF s.stack = <<>> /\ cdir = Null THEN Null ELSE cdir]
    /\ resolved' = IF s.stack = <<>> THEN [resolved EXCEPT ![r] = s.info]
                   ELSE resolved
    /\ IF s.stack = <<>> /\ cdir = Null
       THEN /\ recursiveFilesIndex' = [recursiveFilesIndex EXCEPT ![r] = 0]
            /\ filesInfo' = [filesInfo EXCEPT ![r] = <<>>]
            /\ dlPc' = [dlPc EXCEPT ![r] = "nothing"]
       ELSE /\ recursiveFilesIndex' = [recursiveFilesIndex EXCEPT ![r] = s.idx]
            /\ filesInfo' = [filesInfo EXCEPT ![r] = s.info]
            /\ dlPc' = [dlPc EXCEPT ![r] = IF s.stack = <<>> THEN "readdir" ELSE "parse"]

\* the rootId of a download(url) whose url has no content id in it
NoId == 0

\* two entries of a manifest have the same path and filename: the second
\* downloadContent to finish can find its partial file renamed, and
\* statSync(tmpFile) throws ENOENT
Collides(m) ==
    \E j, k \in DOMAIN m :
        j # k /\ m[j].path = m[k].path /\ m[j].filename = m[k].filename

\* try { await new GoFileDownloader(url); res.send('Download started') }
\* catch (error) { res.status(500).send(`Download failed: ...`) }
HandlerAnswer(threw) == IF threw THEN "failed" ELSE "started"

\* An error with code `code` thrown inside download(): every
\* parseLinksRecursively call in progress logs and rethrows, download() logs
\* and rethrows.  For a url, parseUrlOrFile called download() from its catch
\* block, so the error goes on through init(), whose promise the constructor
\* has dropped: an unhandled rejection.  For a file of lines download() was
\* called in the try block: parseUrlOrFile catches an error whose code is
\* ENOENT, and rethrows any other.
Throw(r, code) ==
    /\ stack' = [stack EXCEPT ![r] = <<>>]
    /\ dlPc' = [dlPc EXCEPT ![r] = IF code = "ENOENT" THEN "enoent" ELSE "threw"]
    /\ procUp' \in IF code = "ENOENT" /\ source[r].file THEN {procUp} ELSE BOOLEAN
    /\ UNCHANGED <<contentDir, recursiveFilesIndex, filesInfo, resolved>>

\* resetClassProperties()
resetClassProperties(r) ==
    /\ contentDir' = [contentDir EXCEPT ![r] = Null]
    /\ recursiveFilesIndex' = [recursiveFilesIndex EXCEPT ![r] = 0]
    /\ filesInfo' = [filesInfo EXCEPT ![r] = <<>>]

\* init() has a token.  Revision 1 calls download(), which awaits
\* createDir(contentId) before it parses; revision 2 calls parseUrlOrFile,
\* which awaits fs.stat(url).
Begin(r, rdir) ==
    IF revision = 1
    THEN LET p == Join2(rdir, IdComp(rootId[r]))
         IN  /\ dirs' = dirs \cup Ancestors(p)
             /\ made' = [made EXCEPT ![r] = @ \cup {p}]
             /\ dlPc' = [dlPc EXCEPT ![r] = "created"]
    ELSE /\ dlPc' = [dlPc EXCEPT ![r] = "start"]
         /\ UNCHANGED <<dirs, made>>

\* new GoFileDownloader(url): the constructor, and init() up to its first await
init(r) ==
    /\ procUp /\ dlPc[r] = "new"
    /\ rootDir' = [rootDir EXCEPT ![r] = RootDirOf(revision, cwd)]
    /\ res' = [res EXCEPT ![r] = HandlerAnswer(FALSE)]
    /\ IF NeedsAccount(token[r])
       THEN /\ accounts' = [accounts EXCEPT ![r] = @ + 1]
            /\ dlPc' = [dlPc EXCEPT ![r] = "token"]
            /\ UNCHANGED <<dirs, made>>
       ELSE /\ Begin(r, RootDirOf(revision, cwd))
            /\ UNCHANGED accounts
    /\ UNCHANGED engineNoProc
    /\ UNCHANGED <<source, tree, cwd, contentDir, recursiveFilesIndex, filesInfo, stack,
                   rootId, fetches, revision, token, resolved, handed, procUp>>

\* getToken(): the POST is answered with status 'ok'
TokenOk(r) ==
    /\ procUp /\ dlPc[r] = "token"
    /\ token' = [token EXCEPT ![r] = "created"]
    /\ Begin(r, rootDir[r])
    /\ UNCHANGED engineNoProc
    /\ UNCHANGED <<source, res, tree, cwd, contentDir, recursiveFilesIndex, filesInfo, stack,
                   rootDir, rootId, fetches, revision, accounts, resolved, handed,
                   procUp>>

\* getToken(): the POST rejects or its status is not 'ok': getToken throws,
\* init() rejects
TokenFails(r) ==
    /\ procUp /\ dlPc[r] = "token"
    /\ Throw(r, "other")
    /\ UNCHANGED engineNoProc
    /\ UNCHANGED <<source, res, tree, cwd, dirs, rootDir, rootId, fetches, revision, token,
                   accounts, made, handed>>

\* download(url): a url without a content id is logged and download returns;
\* otherwise parseLinksRecursively is called and runs up to its GET
download(r) ==
    /\ procUp /\ dlPc[r] \in {"start", "created"}
    /\ IF rootId[r] = NoId
       THEN /\ dlPc' = [dlPc EXCEPT ![r] = "nourl"]
            /\ UNCHANGED stack
       ELSE /\ stack' = [stack EXCEPT
                           ![r] = <<[node |-> rootId[r], at |-> "fetch", i |-> 1]>>]
            /\ dlPc' = [dlPc EXCEPT ![r] = "parse"]
    /\ UNCHANGED engineNoProc
    /\ UNCHANGED <<source, res, tree, cwd, dirs, contentDir, recursiveFilesIndex, filesInfo,
                   rootDir, rootId, fetches, revision, token, accounts, made,
                   resolved, handed, procUp>>

\* await axios.get(url) rejects
FetchFails(r) ==
    /\ procUp /\ dlPc[r] = "parse" /\ Top(r).at = "fetch"
    /\ fetches' = [fetches EXCEPT ![r] = Append(@, <<Top(r).node, "error">>)]
    /\ Throw(r, "other")
    /\ UNCHANGED engineNoProc
    /\ UNCHANGED <<source, res, tree, cwd, dirs, rootDir, rootId, revision, token, accounts,
                   made, handed>>

\* the envelope's status is not 'ok', or the node is password protected and
\* passwordStatus is not 'passwordOk': log and return
FetchRefused(r) ==
    /\ procUp /\ dlPc[r] = "parse" /\ Top(r).at = "fetch"
    /\ \E why \in {"notok", "password"} :
         fetches' = [fetches EXCEPT ![r] = Append(@, <<Top(r).node, why>>)]
    /\ Resume(r, Return(Local(r)), contentDir[r])
    /\ UNCHANGED engineNoProc
    /\ UNCHANGED <<source, res, tree, dirs, rootDir, rootId, revision, token, accounts, made,
                   handed, procUp>>

\* the node's description arrives.  A file is added to the manifest.  For a
\* folder the first call of the run sets contentDir and awaits
\* createDir(contentId); a later call awaits createDir(data.name).
FetchOk(r) ==
    /\ procUp /\ dlPc[r] = "parse" /\ Top(r).at = "fetch"
    /\ fetches' = [fetches EXCEPT ![r] = Append(@, <<Top(r).node, "ok">>)]
    /\ LET node == Top(r).node
           d == Len(stack[r])
           first == contentDir[r] = Null
           p == createDir(r, cwd, IF first THEN IdComp(node) ELSE tree.name[node])
       IN  IF tree.kind[node] = "file"
           THEN /\ Resume(r, Return(AddFile(Local(r), node)), contentDir[r])
                /\ UNCHANGED <<dirs, made, procUp>>
           ELSE IF MkdirFails(p)
           THEN /\ Throw(r, "ENOENT")
                /\ made' = [made EXCEPT ![r] = @ \cup {p}]
                /\ UNCHANGED <<cwd, dirs>>
           ELSE /\ dirs' = Mkdir(p)
                /\ made' = [made EXCEPT ![r] = @ \cup {p}]
                /\ Resume(r, [Local(r) EXCEPT !.stack[d].at =
                                                 IF first THEN "mkroot" ELSE "mkdir"],
                          IF first THEN Join2(rootDir[r], IdComp(node))
                          ELSE contentDir[r])
                /\ UNCHANGED procUp
    /\ UNCHANGED engineNoProc
    /\ UNCHANGED <<source, res, tree, rootDir, rootId, revision, token, accounts, handed>>

\* createDir(contentId) is done: process.chdir(this.contentDir) unless the
\* folder is named like its id, then await createDir(data.name)
AfterMkRoot(r) ==
    /\ procUp /\ dlPc[r] = "parse" /\ Top(r).at = "mkroot"
    /\ LET node == Top(r).node
           d == Len(stack[r])
           to == IF tree.name[node] # IdComp(node) THEN contentDir[r] ELSE cwd
           p == createDir(r, to, tree.name[node])
       IN  IF to \notin dirs
           THEN /\ Throw(r, "ENOENT")
                /\ UNCHANGED <<cwd, dirs, made>>
           ELSE /\ dirs' = Mkdir(p)
                /\ made' = [made EXCEPT ![r] = @ \cup {p}]
                /\ Resume(r, [Local(r) EXCEPT !.stack[d].at = "mkdir", !.cwd = to],
                          contentDir[r])
                /\ UNCHANGED procUp
    /\ UNCHANGED engineNoProc
    /\ UNCHANGED <<source, res, tree, rootDir, rootId, fetches, revision, token, accounts,
                   handed>>

\* createDir(data.name) is done: process.chdir(data.name), then the loop
AfterMkdir(r) ==
    /\ procUp /\ dlPc[r] = "parse" /\ Top(r).at = "mkdir"
    /\ LET node == Top(r).node
           d == Len(stack[r])
           to == Join2(cwd, tree.name[node])
       IN  IF to \in dirs
           THEN /\ Resume(r, Loop([Local(r) EXCEPT !.stack[d].at = "loop", !.cwd = to]),
                          contentDir[r])
                /\ UNCHANGED procUp
           ELSE /\ Throw(r, "ENOENT")
                /\ UNCHANGED cwd
    /\ UNCHANGED engineNoProc
    /\ UNCHANGED <<source, res, tree, dirs, rootDir, rootId, fetches, revision, token, accounts,
                   made, handed>>

\* fs.readdir(dir): the names in a directory (the resolver's disk holds
\* directories only)
Readdir(dir) == {p \in dirs : Len(p) = Len(dir) + 1 /\ SubSeq(p, 1, Len(dir)) = dir}

\* fs.readdir(this.contentDir) is done.  An empty directory with an empty
\* manifest is removed and the state reset.  Otherwise threadedDownloads():
\* process.chdir(this.contentDir), downloadContent is called for every entry
\* of the manifest, and the run awaits Promise.all.
AfterReaddir(r) ==
    /\ procUp /\ dlPc[r] = "readdir"
    /\ IF contentDir[r] \notin dirs
       THEN /\ Throw(r, "ENOENT")
            /\ UNCHANGED <<cwd, dirs, handed>>
       ELSE IF Readdir(contentDir[r]) = {} /\ DOMAIN filesInfo[r] = {}
       THEN /\ dirs' = dirs \ {contentDir[r]}
            /\ resetClassProperties(r)
            /\ dlPc' = [dlPc EXCEPT ![r] = "removed"]
            /\ UNCHANGED <<cwd, stack, resolved, handed, procUp>>
       ELSE /\ cwd' = contentDir[r]
            /\ handed' = [handed EXCEPT ![r] = filesInfo[r]]
            /\ dlPc' = [dlPc EXCEPT ![r] = "engine"]
            /\ UNCHANGED <<dirs, contentDir, recursiveFilesIndex, filesInfo, stack,
                           resolved, procUp>>
    /\ UNCHANGED engineNoProc
    /\ UNCHANGED <<source, res, tree, rootDir, rootId, fetches, revision, token, accounts, made>>

\* Promise.all(downloads) is fulfilled (the transfers are the engine's
\* actions above): process.chdir(this.rootDir), and download() resets
threadedDownloadsReturns(r) ==
    /\ procUp /\ dlPc[r] = "engine"
    /\ IF rootDir[r] \in dirs
       THEN /\ cwd' = rootDir[r]
            /\ resetClassProperties(r)
            /\ dlPc' = [dlPc EXCEPT ![r] = "done"]
            /\ UNCHANGED <<stack, resolved, procUp>>
       ELSE /\ Throw(r, "ENOENT")
            /\ UNCHANGED cwd
    /\ UNCHANGED engineNoProc
    /\ UNCHANGED <<source, res, tree, dirs, rootDir, rootId, fetches, revision, token, accounts,
                   made, handed>>

\* Promise.all(downloads) rejects, with the first downloadContent that throws
threadedDownloadsThrows(r) ==
    /\ procUp /\ dlPc[r] = "engine" /\ DOMAIN handed[r] # {}
    /\ \E code \in {"other"} \cup (IF Collides(handed[r]) THEN {"ENOENT"} ELSE {}) :
         Throw(r, code)
    /\ UNCHANGED engineNoProc
    /\ UNCHANGED <<source, res, tree, cwd, dirs, rootDir, rootId, fetches, revision, token,
                   accounts, made, handed>>

\* parseUrlOrFile, given a file: download() has returned, and the for loop
\* calls download() for the next line
NextLine(r) ==
    /\ procUp /\ dlPc[r] \in {"nothing", "removed", "done", "nourl"}
    /\ source[r].file /\ source[r].lines # <<>>
    /\ rootId' = [rootId EXCEPT ![r] = Head(source[r].lines)]
    /\ source' = [source EXCEPT ![r].lines = Tail(@)]
    /\ dlPc' = [dlPc EXCEPT ![r] = "start"]
    /\ UNCHANGED engineNoProc
    /\ UNCHANGED <<res, tree, cwd, dirs, contentDir, recursiveFilesIndex, filesInfo,
                   stack, rootDir, fetches, revision, token, accounts, made,
                   resolved, handed, procUp>>

\* parseUrlOrFile, given a file: a download() of the loop threw an error
\* whose code is ENOENT; the catch block calls download(urlOrFile), with the
\* file's path for a url
parseUrlOrFileCatch(r) ==
    /\ procUp /\ dlPc[r] = "enoent" /\ source[r].file
    /\ rootId' = [rootId EXCEPT ![r] = NoId]
    /\ source' = [source EXCEPT ![r].lines = <<>>]
    /\ dlPc' = [dlPc EXCEPT ![r] = "start"]
    /\ UNCHANGED engineNoProc
    /\ UNCHANGED <<res, tree, cwd, dirs, contentDir, recursiveFilesIndex, filesInfo,
                   stack, rootDir, fetches, revision, token, accounts, made,
                   resolved, handed, procUp>>

ResolveNext ==
    \/ \E r \in Runs : init(r)
    \/ \E r \in Runs : TokenOk(r)
    \/ \E r \in Runs : TokenFails(r)
    \/ \E r \in Runs : download(r)
    \/ \E r \in Runs : FetchFails(r)
    \/ \E r \in Runs : FetchRefused(r)
    \/ \E r \in Runs : FetchOk(r)
    \/ \E r \in Runs : AfterMkRoot(r)
    \/ \E r \in Runs : AfterMkdir(r)
    \/ \E r \in Runs : AfterReaddir(r)
    \/ \E r \in Runs : threadedDownloadsReturns(r)
    \/ \E r \in Runs : threadedDownloadsThrows(r)

----------------------------------------------------------------------------
(* Initial states of the resolver: every remote content of up to MaxNodes  *)
(* nodes (the nodes in `roots` have no parent; the parent of another node  *)
(* is a folder with a smaller id), one GoFileDownloader about to be        *)
(* constructed per root in `roots`, the working directory empty.           *)

RootSet(roots) == {roots[r] : r \in DOMAIN roots}

\* the display name of node i: its own, or one that other nodes have too
\* (for a root: its content id, which takes the other branch of
\* parseLinksRecursively)
NameOf(i, shared, root) ==
    IF ~shared THEN <<"n", i>> ELSE IF root THEN IdComp(i) ELSE <<"n", 0>>

ResolverInit(roots, revs, tokens, rest) ==
    /\ \E n \in (Len(roots) + Len(rest))..MaxNodes :
         \E kind \in [1..n -> {"folder", "file"}] :
           \E parent \in [1..n -> 0..(n - 1)] :
             /\ \A i \in 1..n :
                  IF i \in RootSet(roots \o rest) THEN parent[i] = 0
                  ELSE parent[i] \in 1..(i - 1) /\ kind[parent[i]] = "folder"
             /\ \E shared \in [1..n -> BOOLEAN] :
                  tree = [kind |-> kind, parent |-> parent,
                          name |-> [i \in 1..n |->
                                      NameOf(i, shared[i],
                                             i \in RootSet(roots \o rest))]]
    /\ revision \in revs
    /\ token \in [DOMAIN roots -> tokens]
    /\ cwd = App
    /\ dirs = {<<>>, App}
    /\ rootId = roots
    /\ rootDir = [r \in DOMAIN roots |-> Null]
    /\ contentDir = [r \in DOMAIN roots |-> Null]
    /\ recursiveFilesIndex = [r \in DOMAIN roots |-> 0]
    /\ filesInfo = [r \in DOMAIN roots |-> <<>>]
    /\ stack = [r \in DOMAIN roots |-> <<>>]
    /\ dlPc = [r \in DOMAIN roots |-> "new"]
    /\ fetches = [r \in DOMAIN roots |-> <<>>]
    /\ accounts = [r \in DOMAIN roots |-> 0]
    /\ made = [r \in DOMAIN roots |-> {}]
    /\ resolved = [r \in DOMAIN roots |-> <<>>]
    /\ handed = [r \in DOMAIN roots |-> <<>>]
    /\ source = [r \in DOMAIN roots |-> [file |-> rest # <<>>, lines |-> rest]]
    /\ res = [r \in DOMAIN roots |-> "none"]

\* no resolution in progress
ResolverIdle ==
    /\ tree = [kind |-> <<>>, parent |-> <<>>, name |-> <<>>]
    /\ revision = 2
    /\ cwd = App
    /\ dirs = {<<>>, App}
    /\ rootId = <<>>
    /\ rootDir = <<>>
    /\ contentDir = <<>>
    /\ recursiveFilesIndex = <<>>
    /\ filesInfo = <<>>
    /\ stack = <<>>
    /\ dlPc = <<>>
    /\ fetches = <<>>
    /\ token = <<>>
    /\ accounts = <<>>
    /\ made = <<>>
    /\ resolved = <<>>
    /\ handed = <<>>
    /\ source = <<>>
    /\ res = <<>>

\* no engine run in progress
EngineIdle ==
    /\ fileInfos = <<>>
    /\ remoteSize = <<>>
    /\ finalFile = <<>>
    /\ partFile = <<>>
    /\ disk0 = [final |-> <<>>, part |-> <<>>]
    /\ pc = <<>>
    /\ partSize = <<>>
    /\ range = <<>>
    /\ gets = <<>>
    /\ resp = <<>>
    /\ totalSize = <<>>
    /\ written = <<>>
    /\ fd = <<>>
    /\ message = <<>>
    /\ logged = {}
    /\ runPc = "idle"
    /\ procUp = TRUE

\* one transfer, over every disk state
Init == EngineInit({1}, 1..MaxSize, TRUE, TRUE, FALSE) /\ ResolverIdle

\* a run over a manifest of several entries, some of them interrupted earlier
InitRun == EngineInit(2..MaxEntries, 1..MaxSize, FALSE, TRUE, FALSE) /\ ResolverIdle

\* a run over a fresh manifest larger than the worker pool
InitPool == EngineInit({PoolEntries}, {1}, FALSE, FALSE, FALSE) /\ ResolverIdle

\* one resolution run, of the tree's root, by either revision, with and
\* without GF_TOKEN
InitResolve == EngineIdle /\ ResolverInit(<<1>>, {1, 2}, {"none", "preset"}, <<>>)

\* two downloaders, one per url of a submission or from two submissions that
\* overlap, on two roots; GF_TOKEN is set.  The handler that loops over
\* req.body.urls is the second revision's.
InitOverlap == EngineIdle /\ ResolverInit(<<1, 2>>, {2}, {"preset"}, <<>>)

\* a run over a fresh manifest of MaxEntries one-byte files, with what an
\* earlier run left of the partial files
InitPair == EngineInit({MaxEntries}, {1}, FALSE, TRUE, FALSE) /\ ResolverIdle

\* a run over a fresh manifest of MaxEntries entries that have the same
\* destination directory and filename (sibling files with one name)
InitCollide == EngineInit({MaxEntries}, 1..MaxSize, FALSE, FALSE, TRUE) /\ ResolverIdle

\* one downloader given a file of two lines, the urls of two roots (the
\* second revision's parseUrlOrFile); GF_TOKEN is set
InitLines == EngineIdle /\ ResolverInit(<<1>>, {2}, {"preset"}, <<2>>)

Next == EngineNext

NextResolve == ResolveNext

\* the steps of runs that have a token
NextOverlap ==
    \/ \E r \in Runs : init(r)
    \/ \E r \in Runs : download(r)
    \/ \E r \in Runs : FetchFails(r)
    \/ \E r \in Runs : FetchRefused(r)
    \/ \E r \in Runs : FetchOk(r)
    \/ \E r \in Runs : AfterMkRoot(r)
    \/ \E r \in Runs : AfterMkdir(r)
    \/ \E r \in Runs : AfterReaddir(r)
    \/ \E r \in Runs : threadedDownloadsReturns(r)
    \/ \E r \in Runs : threadedDownloadsThrows(r)

Spec == Init /\ [][Next]_vars
SpecRun == InitRun /\ [][Next]_vars
SpecPool == InitPool /\ [][Next]_vars
\* the steps of a run that has a token and was given a file
NextLines ==
    \/ NextOverlap
    \/ \E r \in Runs : NextLine(r)
    \/ \E r \in Runs : parseUrlOrFileCatch(r)

SpecPair == InitPair /\ [][Next]_vars
SpecCollide == InitCollide /\ [][Next]_vars
SpecResolve == InitResolve /\ [][NextResolve]_vars
SpecOverlap == InitOverlap /\ [][NextOverlap]_vars
SpecLines == InitLines /\ [][NextLines]_vars

----------------------------------------------------------------------------
(* Properties *)

\* the remote file an entry names, and its size
SizeOf(e) == remoteSize[fileInfos[e].link]

\* the entry has issued its GET and its promise has not settled
Active(e) == gets[e] > 0 /\ pc[e] \in Pending

\* the partial file the run found for the entry, as a content (empty if none)
Part0(e) == IF Exists(disk0.part[filepath(e)]) THEN disk0.part[filepath(e)] ELSE <<>>

\* the server answered the request as asked and the stream handed over every
\* byte of the file after the first partSize ones
FullyDelivered(e) ==
    /\ resp[e] # NoResp
    /\ resp[e].from = partSize[e]
    /\ partSize[e] + written[e] = SizeOf(e)

\* C1: during a run the number of transfers that have issued their GET and
\* not finished never exceeds maxWorkers
C1_AtMostMaxWorkersActive ==
    Cardinality({e \in Entries : Active(e)}) <= maxWorkers

\* C2: whatever the size of the partial file an earlier attempt left, an
\* attempt whose stream ends after delivering every remaining byte has renamed
\* the partial file to the final path, and the final file has the file's size
C2_ResumedTransferCompletes ==
    \A e \in Entries :
        (pc[e] \in {"completed", "mismatch"} /\ FullyDelivered(e)) =>
            /\ pc[e] = "completed"
            /\ partFile[filepath(e)] = NoFile
            /\ finalFile[filepath(e)] = Bytes(0, SizeOf(e))

\* C3: the resume offset is the size of the partial file found (0 without
\* one), an offset N > 0 is sent as Range: bytes=N-, and the bytes received are
\* appended after the N bytes found, which stay as they were
C3_ResumeOffsetAndAppend ==
    \A e \in Entries :
        pc[e] \notin {"idle", "skipped"} =>
            /\ partSize[e] = Len(Part0(e))
            /\ partSize[e] > 0 => range[e] = partSize[e]
            /\ LET f == IF pc[e] = "completed" THEN finalFile[filepath(e)]
                        ELSE partFile[filepath(e)]
               IN  IF pc[e] = "completed" \/ Exists(f)
                   THEN /\ Len(f) = partSize[e] + written[e]
                        /\ SubSeq(f, 1, partSize[e]) = Part0(e)
                   ELSE written[e] = 0

C3_Witness ==
    \E e \in Entries : pc[e] = "streaming" /\ partSize[e] > 0 /\ written[e] > 0

\* C4: an entry whose final file exists with size > 0 when the run starts
\* issues no request, leaves the partial and the final file as they were, and
\* its promise is fulfilled
C4_ExistingFileNotRefetched ==
    \A e \in Entries :
        (pc[e] # "idle" /\ Exists(disk0.final[filepath(e)])
                        /\ Len(disk0.final[filepath(e)]) > 0) =>
            /\ pc[e] = "skipped"
            /\ gets[e] = 0
            /\ partFile[filepath(e)] = disk0.part[filepath(e)]
            /\ finalFile[filepath(e)] = disk0.final[filepath(e)]

C4_Witness ==
    \E e \in Entries : pc[e] = "skipped" /\ Exists(partFile[filepath(e)])

C6_MismatchKeptAndReported ==
    \A e \in Entries :
        pc[e] = "mismatch" =>
            /\ Exists(partFile[filepath(e)])
            /\ Len(partFile[filepath(e)]) = partSize[e] + written[e]
            /\ finalFile[filepath(e)] = disk0.final[filepath(e)]
            /\ <<e, "mismatch">> \in logged
            /\ runPc # "aborted"

\* C7: the run is over (threadedDownloads has returned or thrown) only when
\* no entry's transfer is still in flight
C7_RunEndsAfterEveryEntry ==
    runPc \in {"done", "aborted"} => \A e \in Entries : pc[e] \notin Pending

\* C8: whichever other entries fail (request error, no content length, size
\* mismatch), an entry is attempted, and if its own stream is delivered in
\* full it is completed, with its final file in place
C8_FailuresIsolatedPerEntry ==
    \A e \in Entries :
        /\ runPc # "ready" => (pc[e] = "skipped" \/ gets[e] = 1)
        /\ ( /\ \E o \in Entries \ {e} : pc[o] \in {"failed", "nolength", "mismatch"}
             /\ pc[e] \in {"completed", "mismatch"}
             /\ FullyDelivered(e) ) =>
                /\ pc[e] = "completed"
                /\ finalFile[filepath(e)] = Bytes(0, SizeOf(e))

\* C9: after a network error in the middle of the stream the entry's promise
\* settles as failed (it is not left pending with no step to take), the bytes
\* written stay in the partial file, and nothing is renamed
C9_StreamErrorFailsEntry ==
    \A e \in Entries :
        pc[e] = "stalled" =>
            /\ ENABLED downloadContent(e)
            /\ Len(partFile[filepath(e)]) = partSize[e] + written[e]
            /\ finalFile[filepath(e)] = disk0.final[filepath(e)]

\* the file nodes of the tree under (or at) node root
RECURSIVE Under(_, _)
Under(n, root) ==
    IF n = root THEN TRUE
    ELSE IF tree.parent[n] = 0 THEN FALSE
    ELSE Under(tree.parent[n], root)

FileLeaves(root) == {n \in Nodes : tree.kind[n] = "file" /\ Under(n, root)}

FoldersUnder(root) == {n \in Nodes : tree.kind[n] = "folder" /\ Under(n, root)}

AllFetchesOk(r) == \A i \in DOMAIN fetches[r] : fetches[r][i][2] = "ok"

TimesFetched(r, n) == Cardinality({i \in DOMAIN fetches[r] : fetches[r][i][1] = n})

\* C10: when every fetch of a resolution of a folder tree has succeeded, the
\* manifest parseLinksRecursively returns with has one entry per file under
\* the root, under as many keys, and every folder was fetched once
C10_OneEntryPerFileLeaf ==
    \A r \in Runs :
        (dlPc[r] = "readdir" /\ AllFetchesOk(r) /\ tree.kind[rootId[r]] = "folder") =>
            /\ Cardinality(DOMAIN filesInfo[r]) = Cardinality(FileLeaves(rootId[r]))
            /\ {filesInfo[r][k].link : k \in DOMAIN filesInfo[r]} = FileLeaves(rootId[r])
            /\ \A n \in FoldersUnder(rootId[r]) : TimesFetched(r, n) = 1
            /\ \A n \in FileLeaves(rootId[r]) : TimesFetched(r, n) = 0

C10_Witness ==
    \E r \in Runs :
        /\ dlPc[r] = "readdir" /\ AllFetchesOk(r)
        /\ \E a, b \in FileLeaves(rootId[r]) :
              /\ tree.parent[a] = rootId[r]
              /\ tree.parent[b] # rootId[r]
              /\ tree.parent[b] < a

\* the file nodes found by a depth-first pre-order walk of the nodes in `ns`
\* and what is under them, children in the order of data.children
RECURSIVE PreOrder(_)
PreOrder(ns) ==
    IF ns = <<>> THEN <<>>
    ELSE (IF tree.kind[Head(ns)] = "file" THEN <<Head(ns)>>
          ELSE PreOrder(Children(Head(ns)))) \o PreOrder(Tail(ns))

\* the place of file node x in the walk from root
Discovery(root, x) ==
    LET w == PreOrder(<<root>>) IN CHOOSE i \in 1..Len(w) : w[i] = x

\* C11: in every state of a resolution run the manifest's keys are 1..k with
\* k = recursiveFilesIndex, and of two entries the one with the smaller key
\* names the file the depth-first pre-order walk of the tree finds first
C11_KeysDenseInDiscoveryOrder ==
    \A r \in Runs :
        /\ DOMAIN filesInfo[r] = 1..recursiveFilesIndex[r]
        /\ \A j, k \in DOMAIN filesInfo[r] :
              j < k => Discovery(rootId[r], filesInfo[r][j].link)
                          < Discovery(rootId[r], filesInfo[r][k].link)

C11_Witness ==
    \E r \in Runs :
        /\ dlPc[r] = "readdir"
        /\ recursiveFilesIndex[r] >= 2
        /\ tree.parent[filesInfo[r][1].link] # rootId[r]
        /\ tree.parent[filesInfo[r][2].link] = rootId[r]

\* the root local directory of a run: rootDir/rootId
RootLocalDir(r) == Join2(rootDir[r], IdComp(rootId[r]))

\* the run's root is a file, and parseLinksRecursively has fetched it and
\* returned
RootFileResolved(r) ==
    /\ tree.kind[rootId[r]] = "file"
    /\ fetches[r] = << <<rootId[r], "ok">> >>
    /\ dlPc[r] # "parse"

\* C12: when the root of a run is a file, parseLinksRecursively returns with
\* exactly one manifest entry, its destination directory is rootDir/rootId,
\* and the run has made no directory but that one
C12_RootFileUnderRootDir ==
    \A r \in Runs :
        RootFileResolved(r) =>
            /\ DOMAIN resolved[r] = {1}
            /\ resolved[r][1].path = RootLocalDir(r)
            /\ made[r] \subseteq {RootLocalDir(r)}

\* download() has returned without throwing
Returned(r) == dlPc[r] \in {"nothing", "removed", "done"}

\* C13: when download() has returned and parseLinksRecursively had returned
\* with a manifest that is not empty, threadedDownloads was called and called
\* downloadContent for every entry of that manifest
C13_ResolvedManifestHandedOver ==
    \A r \in Runs :
        (Returned(r) /\ DOMAIN resolved[r] # {}) => handed[r] = resolved[r]

\* the root of the run answered that it is password protected
RootPasswordRefused(r) ==
    /\ fetches[r] # <<>>
    /\ fetches[r][1] = <<rootId[r], "password">>

\* C14: when the root node is password protected and no satisfying password
\* was given, the run ends with no manifest entry and has at no point made
\* its root local directory rootDir/rootId
C14_PasswordRootLeavesNothing ==
    \A r \in Runs :
        RootPasswordRefused(r) =>
            /\ dlPc[r] = "nothing"
            /\ DOMAIN resolved[r] = {}
            /\ DOMAIN filesInfo[r] = {}
            /\ RootLocalDir(r) \notin made[r]

\* the outcomes of a metadata GET that are a failure of the fetch: the
\* envelope's status is not 'ok'; the request rejects or the body cannot be
\* destructured
FetchFailures == {"notok", "error"}

\* C15: after a failed fetch, of the root or of a folder under it, the run
\* fetches no other node and threadedDownloads is not called
C15_FetchFailureAbortsResolve ==
    \A r \in Runs :
        \A i \in DOMAIN fetches[r] :
            fetches[r][i][2] \in FetchFailures =>
                /\ i = Len(fetches[r])
                /\ dlPc[r] \notin {"engine", "done"}
                /\ DOMAIN handed[r] = {}

\* parseLinksRecursively has returned to download() and download() has gone
\* on past its checks
PastChecks(r) == dlPc[r] \in {"nothing", "removed", "engine", "done"}

\* C16: when parseLinksRecursively has returned with an empty manifest and
\* the run had made its root local directory, download() removes that
\* directory and does not call threadedDownloads
C16_EmptyManifestRemovesRootDir ==
    \A r \in Runs :
        (PastChecks(r) /\ DOMAIN resolved[r] = {} /\ RootLocalDir(r) \in made[r]) =>
            /\ dlPc[r] = "removed"
            /\ RootLocalDir(r) \notin dirs

\* the local directory of folder n in run r: a folder's directory is in its
\* parent folder's, the root folder's is in rootDir/rootId (or is it, when
\* the root folder is named like its content id)
RECURSIVE LocalDir(_, _)
LocalDir(r, n) ==
    IF n # rootId[r] THEN Join2(LocalDir(r, tree.parent[n]), tree.name[n])
    ELSE IF tree.name[n] = IdComp(n) THEN RootLocalDir(r)
    ELSE Join2(RootLocalDir(r), tree.name[n])

\* the folders of the run's tree whose description has arrived
FoldersSeen(r) ==
    {n \in FoldersUnder(rootId[r]) : \E i \in DOMAIN fetches[r] : fetches[r][i] = <<n, "ok">>}

\* C17: in a run on a folder tree every directory the run makes is
\* rootDir/rootId or the local directory of a folder of the tree, nested in
\* its parent folder's; the destination of every manifest entry is the local
\* directory of the folder the file is a child of; and once
\* threadedDownloads has been called the local directory of every folder
\* resolved is on disk, whatever the transfers do
C17_DirectoriesMirrorTree ==
    \A r \in Runs :
        tree.kind[rootId[r]] = "folder" =>
            /\ \A p \in made[r] :
                  \/ p = RootLocalDir(r)
                  \/ \E n \in FoldersSeen(r) : p = LocalDir(r, n)
            /\ \A k \in DOMAIN filesInfo[r] :
                  filesInfo[r][k].path = LocalDir(r, tree.parent[filesInfo[r][k].link])
            /\ (dlPc[r] \in {"engine", "done"} \/ DOMAIN handed[r] # {}) =>
                  \A n \in FoldersSeen(r) : LocalDir(r, n) \in dirs

\* path q is directory p or is inside it
Inside(p, q) == Len(p) <= Len(q) /\ SubSeq(q, 1, Len(p)) = p

\* C18: with two runs on different root folders under way, every manifest
\* entry of a run has its destination inside the run's own root directory
\* rootDir/rootId, every directory the run makes is that directory or inside
\* it, and the run's keys are 1..recursiveFilesIndex
C18_OverlappingRunsIndependent ==
    \A r \in Runs :
        (rootDir[r] # Null /\ tree.kind[rootId[r]] = "folder") =>
            /\ \A k \in DOMAIN filesInfo[r] :
                  Inside(RootLocalDir(r), filesInfo[r][k].path)
            /\ \A p \in made[r] : Inside(RootLocalDir(r), p)
            /\ DOMAIN filesInfo[r] = 1..recursiveFilesIndex[r]

\* an entry whose response declared no total size
Abandoned(e) ==
    /\ written[e] = 0
    /\ partFile[filepath(e)] = disk0.part[filepath(e)]
    /\ finalFile[filepath(e)] = disk0.final[filepath(e)]
    /\ <<e, "nolength">> \in logged

\* the step in which entry e finds no content-length changes nothing of the
\* disk, of the other entries or of the run, but that the run is done when e
\* was the last entry in flight
AbandonStep(e) ==
    (pc[e] = "requested" /\ pc'[e] = "nolength") =>
        /\ \A o \in Entries \ {e} : pc'[o] = pc[o]
        /\ UNCHANGED <<partFile, finalFile, written, gets, resp, totalSize, procUp>>
        /\ runPc' \in {runPc, "done"}

\* C19: an entry whose response has no content-length (absent, or parsed to
\* 0 or NaN) is abandoned with a line logged: it has streamed no byte, its
\* partial file is as the run found it (not created, not modified), nothing
\* was renamed, and the step changes nothing of the other entries or the run
C19_NoContentLengthAbandonsEntry ==
    /\ [](\A e \in Entries : pc[e] = "nolength" => Abandoned(e))
    /\ [][\A e \in Entries : AbandonStep(e)]_vars

C19_Witness ==
    \E e, o \in Entries :
        /\ pc[e] = "nolength" /\ ~Exists(disk0.part[filepath(e)])
        /\ pc[o] = "completed"

\* getToken() threw: the run is over and has no token
AccountFailed(r) == dlPc[r] = "threw" /\ token[r] = "none"

\* C20: a run with a preconfigured token keeps it and posts no account
\* creation; a run without one posts exactly one, and when that fails (the
\* request rejects or its status is not 'ok') the run is over: no second
\* request, no metadata GET, no directory made, nothing handed to the engine
C20_TokenPresetOrOneAccount ==
    /\ [](\A r \in Runs :
            /\ token[r] = "preset" => accounts[r] = 0
            /\ (token[r] # "preset" /\ dlPc[r] # "new") => accounts[r] = 1
            /\ AccountFailed(r) =>
                  /\ fetches[r] = <<>>
                  /\ made[r] = {}
                  /\ DOMAIN handed[r] = {}
                  /\ ~ENABLED ResolveNext)
    /\ [][\A r \in Runs : token[r] = "preset" => token'[r] = "preset"]_vars

C20_Witness ==
    \E r \in Runs : AccountFailed(r) /\ accounts[r] = 1 /\ procUp

\* the transfer of the entry failed or ended short of the file
Unfinished(e) == pc[e] \in {"failed", "nolength", "mismatch", "stalled"}

\* C21: in one run an entry has at most one GET: the request is issued when
\* threadedDownloads calls downloadContent, and no later step of the run,
\* whatever became of the transfer, issues another
C21_OneRequestPerEntry ==
    /\ [](\A e \in Entries : gets[e] <= 1 /\ (Unfinished(e) => gets[e] = 1))
    /\ [][\A e \in Entries : pc[e] # "idle" => gets'[e] = gets[e]]_vars

C21_Witness ==
    \E e, o \in Entries :
        /\ pc[e] = "mismatch" /\ Exists(partFile[filepath(e)])
        /\ pc[o] = "failed" /\ runPc = "aborted"

\* the transfer of the entry is over
Ended(e) == pc[e] \in Fulfilled \cup {"failed"}

\* C23: when two entries of a run have the same destination path and the
\* transfers of both are over, each after its stream was delivered in full,
\* the final file is there and is a copy of the remote file of one of them
C23_CollisionLastWriteWins ==
    \A e, o \in Entries :
        ( /\ e # o /\ filepath(e) = filepath(o)
          /\ Ended(e) /\ FullyDelivered(e)
          /\ Ended(o) /\ FullyDelivered(o) ) =>
            /\ Exists(finalFile[filepath(e)])
            /\ \E x \in {e, o} : finalFile[filepath(e)] = Bytes(0, SizeOf(x))


\* ---------------------------------------------------------------------
\* C22  At the start of every download() invocation, the later lines of a
\*      file handled by one GoFileDownloader included, contentDir is null,
\*      the manifest is empty and the sequence counter is 0.
\*      Violated: download() does not reset in its catch block, and
\*      parseUrlOrFile calls download() again when the error's code is ENOENT.
AtDownloadStart(r) == dlPc[r] \in {"start", "created"}

C22_StateClearAtDownloadStart ==
    \A r \in Runs :
        AtDownloadStart(r) =>
            /\ contentDir[r] = Null
            /\ filesInfo[r] = <<>>
            /\ recursiveFilesIndex[r] = 0


\* ---------------------------------------------------------------------
\* C24  The POST /download handler reports the run's terminal state: a run
\*      that aborts with an error is answered with HTTP 500 'Download
\*      failed', and 'Download started' is sent only when no error was raised.
\*      Violated: the constructor drops init()'s promise, the handler awaits
\*      the constructed object and answers before the run has made a request.
RunAborted(r) == dlPc[r] \in {"threw", "enoent"}

C24_HandlerReportsAbort ==
    \A r \in Runs : RunAborted(r) => res[r] = "failed"


\* ---------------------------------------------------------------------
\* C25  When download() ends, by success, by an early return (password,
\*      empty result) or by an error thrown during resolution or transfer,
\*      the process working directory is what it was when the run began.
\*      Violated: only threadedDownloads changes back (to rootDir), and only
\*      after all transfers succeeded.
RunOver(r) == dlPc[r] \in {"nothing", "removed", "done", "nourl", "threw", "enoent"}

C25_WorkingDirectoryRestored ==
    \A r \in Runs : RunOver(r) => cwd = App


\* ---------------------------------------------------------------------
\* C26  For every progress event of a transfer, with any resume offset, the
\*      bytes-so-far reported (offset + bytes written this attempt) do not
\*      exceed the total reported, and the percentage lies in 0..100 and is
\*      100 exactly when the whole file is on disk (the chunk of the event
\*      written).
\*      Violated: the total is the content-length of the response, the
\*      remaining bytes of a resumed transfer, and bytesWritten is read
\*      before the chunk is written.
ProgressReported(e) == pc[e] = "streaming" /\ message[e] # NoMessage

WholeOnDisk(e) == partFile[filepath(e)] = Bytes(0, remoteSize[fileInfos[e].link])

C26_ProgressWithinTotal ==
    \A e \in Entries :
        ProgressReported(e) =>
            /\ message[e].sofar <= message[e].total
            /\ message[e].pct \in 0..1000
            /\ message[e].pct = 1000 <=> WholeOnDisk(e)

====
